---- MODULE Spec2Model ----
(***************************************************************************)
(* FinGame RPG: the story catalog (StoryEngine) and the per-user game      *)
(* session state machine (GameService: set_path, get_current_state,        *)
(* make_choice, rollback) over the GameSession, GameHistoryLog and         *)
(* UserGamification tables.                                                *)
(***************************************************************************)
EXTENDS Integers, Sequences, FiniteSets, TLC

VARIABLES
    engine,        \* StoryEngine class state: [paths, nodes] built by load_stories
    sessions,      \* GameSession table, rows in id order (row i has id i)
    history,       \* GameHistoryLog table, rows in id order
    gamification,  \* UserGamification table, rows in id order
    last,          \* the request served last: operation, user, the path requested or
                   \* the choice applied, outcome, response
    pre,           \* after an applied make_choice: the session state it started from
    made,          \* per user: the choices applied since the session was (re)initialised,
                   \* None once a rollback occurred
    visited,       \* per user: the stack of session states the user actually rested in
    ended,         \* per user: the make_choice calls so far that moved the session to "end"
    solo,          \* per user: the tables had this user's requests been served alone
    inflight,      \* per request slot: a handler between its read of the session row
                   \* and its commit, with the rows its database session loaded
    overlapped,    \* a request read the session row while another one was in flight
    begun          \* the number of requests that went in flight

vars == <<engine, sessions, history, gamification, last, pre, made, visited, ended, solo,
         inflight, overlapped, begun>>

----------------------------------------------------------------------------
(* Python values *)

\* Optional values: None is the empty tuple, a present value x is <<x>>.
None == <<>>
Some(x) == <<x>>

\* dict.get(key, default) on a dict modelled as a function with string keys
Get(d, k, default) == IF k \in DOMAIN d THEN d[k] ELSE default

\* An empty dict {}
EmptyDict == <<>>

\* Python truthiness of an Optional[str]: None and "" are falsy
Truthy(opt) == opt # None /\ opt[1] # ""

\* Text values of the catalog.  A string is a sequence of tokens, so that a
\* placeholder such as "{savings}" is a token str.replace can act on; a text
\* field holds a plain string, a bilingual mapping or None.
Str(tokens) == [str |-> tokens]
Dict(d) == [dict |-> d]
PyNone == [none |-> TRUE]

----------------------------------------------------------------------------
(* Bounds and inputs *)

\* cap on the rows of the GameHistoryLog table
MaxHistory == 2
\* cap on the completion awards handed out over all users
MaxAwards == 2

Users == {1, 2}
PathIds == {"farming", "business", "default", "nonexistent"}
ChoiceIds == {"c1", "c2", "zz"}

\* The requests of the two clients.  User 1 sends every input in English; user 2
\* is a second player, in Hindi, who stays on the fallback story and takes the
\* first choice of each scene, so that the tables hold another user's rows.
LanguageOf == [u \in Users |-> IF u = 1 THEN "english" ELSE "hindi"]
PathIdsOf == [u \in Users |-> IF u = 1 THEN PathIds ELSE {"farming"}]
ChoiceIdsOf == [u \in Users |-> IF u = 1 THEN ChoiceIds ELSE {"c1"}]

----------------------------------------------------------------------------
(* Story sources (stories.json) *)

FarmingPath ==
    [path_id |-> "farming",
     initial_state |-> [savings |-> 100, debt |-> 0, confidence |-> 50],
     nodes |-> <<
        [node_id |-> "start", sequence |-> 1,
         narrative |-> Dict([english |-> <<"You have ", "{savings}">>,
                             hindi |-> <<"Aapke paas ", "{savings}">>]),
         choices |-> <<
            [id |-> "c1", text |-> Dict([english |-> <<"Buy seeds">>]),
             impact |-> [savings |-> -20, confidence |-> 5],
             next_node |-> Some("n2")],
            [id |-> "c2", text |-> Str(<<"Borrow">>),
             impact |-> [debt |-> 10]] >>],
        [node_id |-> "n2", sequence |-> 2,
         narrative |-> Str(<<"Debt ", "{debt}", " trust ", "{confidence}">>),
         choices |-> <<
            [id |-> "c1", text |-> Dict([english |-> <<"Sell">>, hindi |-> <<"Becho">>]),
             impact |-> [confidence |-> -60],
             next_node |-> None],
            [id |-> "c2", text |-> Str(<<"Replant">>),
             impact |-> [savings |-> -90, debt |-> -15, confidence |-> 50],
             next_node |-> Some("start")] >>] >>]

BusinessPath ==
    [path_id |-> "business",
     initial_state |-> [savings |-> 10],
     nodes |-> <<
        [node_id |-> "b1",
         narrative |-> Dict([hindi |-> <<"Dukaan">>]),
         choices |-> <<
            [id |-> "c1", text |-> Str(<<"Expand">>),
             impact |-> [debt |-> 5],
             next_node |-> Some("start")],
            [id |-> "c2", text |-> Str(<<"Wait">>),
             next_node |-> Some("")] >>],
        [node_id |-> "b2", sequence |-> 1,
         choices |-> <<
            [id |-> "c1", text |-> Str(<<"Go on">>)],
            [id |-> "c2", text |-> Str(<<"Wander">>),
             next_node |-> Some("ghost")] >>],
        [node_id |-> "start", sequence |-> 2,
         narrative |-> Str(<<"Second shop">>),
         choices |-> <<
            [id |-> "c1", text |-> Str(<<"Finish">>),
             impact |-> [savings |-> 1]] >>] >>]

\* the multi-path source shape {characters, paths: [...]}
MultiPathFile == [paths |-> <<FarmingPath, BusinessPath>>]

\* the legacy single-story shape {nodes: [...]} without a path_id; this story
\* has no scene yet
LegacyFile == [initial_state |-> [confidence |-> 70], nodes |-> <<>>]

\* what STORY_FILE may hold at load time; None: the file does not exist
StoryFiles == {None, Some(MultiPathFile), Some(LegacyFile)}

----------------------------------------------------------------------------
(* StoryEngine *)

\* the index of the last entry of s whose field `key` is v, 0 when there is none
RECURSIVE LastIndexWith(_, _, _)
LastIndexWith(s, key, v) ==
    IF s = <<>> THEN 0
    ELSE IF s[Len(s)][key] = v THEN Len(s)
         ELSE LastIndexWith(SubSeq(s, 1, Len(s) - 1), key, v)

\* {node_id -> node} for a list of nodes, later duplicates overwriting earlier ones
IndexNodes(nodes) ==
    [nid \in {nodes[i].node_id : i \in DOMAIN nodes} |->
        nodes[LastIndexWith(nodes, "node_id", nid)]]

EmptyEngine == [paths |-> EmptyDict, nodes |-> EmptyDict]

load_stories(file) ==
    IF file = None THEN EmptyEngine
    ELSE LET data == file[1] IN
         IF "paths" \in DOMAIN data THEN
            LET ps == data.paths
                ids == {ps[i].path_id : i \in DOMAIN ps}
            IN [paths |-> [p \in ids |-> ps[LastIndexWith(ps, "path_id", p)]],
                nodes |-> [p \in ids |-> IndexNodes(ps[LastIndexWith(ps, "path_id", p)].nodes)]]
         ELSE IF "nodes" \in DOMAIN data THEN
            LET p_id == Get(data, "path_id", "default")
            IN [paths |-> [p \in {p_id} |-> data],
                nodes |-> [p \in {p_id} |-> IndexNodes(data.nodes)]]
         ELSE EmptyEngine

\* StoryEngine._paths.get(path_id)
paths_get(eng, path_id) ==
    IF path_id \in DOMAIN eng.paths THEN Some(eng.paths[path_id]) ELSE None

\* a lookup that answers an unknown node id with the first node of the path
get_node_or_first(eng, path_id, node_id) ==
    LET nodes == Get(eng.nodes, path_id, EmptyDict)
    IN IF node_id \in DOMAIN nodes THEN Some(nodes[node_id])
       ELSE IF path_id \in DOMAIN eng.paths /\ eng.paths[path_id].nodes # <<>>
            THEN Some(eng.paths[path_id].nodes[1])
            ELSE None

get_node(eng, path_id, node_id) ==
    LET nodes == Get(eng.nodes, path_id, EmptyDict)
    IN IF node_id \in DOMAIN nodes THEN Some(nodes[node_id]) ELSE None

\* the first node of the list, whatever its sequence (the sort left out)
get_start_node_unsorted(eng, path_id) ==
    IF path_id \in DOMAIN eng.paths /\ eng.paths[path_id].nodes # <<>>
    THEN Some(eng.paths[path_id].nodes[1])
    ELSE None

\* sorted(nodes, key=sequence or 0)[0]: the first node of least sequence (the sort is stable)
get_start_node(eng, path_id) ==
    LET nodes == Get(eng.nodes, path_id, EmptyDict) IN
    IF DOMAIN nodes = {} THEN None
    ELSE LET path_data == paths_get(eng, path_id) IN
         IF path_data # None /\ "nodes" \in DOMAIN path_data[1] THEN
            LET ns == path_data[1].nodes
                seq(i) == Get(ns[i], "sequence", 0)
            IN IF ns = <<>> THEN None
               ELSE LET first == CHOOSE i \in DOMAIN ns :
                                    \A j \in DOMAIN ns :
                                        seq(i) < seq(j) \/ (seq(i) = seq(j) /\ i <= j)
                    IN Some(ns[first])
         ELSE None

\* the first node of the path's list whose sequence is current_sequence + 1
get_next_node(eng, path_id, current_sequence) ==
    LET path_data == paths_get(eng, path_id) IN
    IF path_data = None THEN None
    ELSE LET ns == path_data[1].nodes
             next_seq == current_sequence + 1
             hits == {i \in DOMAIN ns :
                         "sequence" \in DOMAIN ns[i] /\ ns[i].sequence = next_seq}
         IN IF hits = {} THEN None
            ELSE Some(ns[CHOOSE i \in hits : \A j \in hits : i <= j])


\* value.get(language, value.get("english", str(value))) for a mapping;
\* the string itself, or "" for a falsy value, otherwise
str_of_dict(d) == <<ToString(d)>>

\* a lookup without the fallback to the "english" entry
resolve_text_strict(value, language) ==
    IF "dict" \in DOMAIN value THEN
        Get(value.dict, language, str_of_dict(value.dict))
    ELSE IF "str" \in DOMAIN value /\ value.str # <<>> THEN value.str
    ELSE <<>>

resolve_text(value, language) ==
    IF "dict" \in DOMAIN value THEN
        Get(value.dict, language, Get(value.dict, "english", str_of_dict(value.dict)))
    ELSE IF "str" \in DOMAIN value /\ value.str # <<>> THEN value.str
    ELSE <<>>

----------------------------------------------------------------------------
(* The tables *)

\* db.query(GameSession).filter(user_id == u).first(): the row id, 0 for None
\* the first row of the table, whoever owns it (the filter left out)
session_first_any(D, user_id) ==
    IF D.sessions = <<>> THEN 0 ELSE 1

session_first(D, user_id) ==
    LET hits == {i \in DOMAIN D.sessions : D.sessions[i].user_id = user_id}
    IN IF hits = {} THEN 0 ELSE CHOOSE i \in hits : \A j \in hits : i <= j

\* the oldest row of the session instead of the newest (order_by(id) without desc)
first_log_of(D, sid) ==
    LET hits == {i \in DOMAIN D.history : D.history[i].session_id = sid}
    IN IF hits = {} THEN 0 ELSE CHOOSE i \in hits : \A j \in hits : i <= j

\* the newest row of the table, whatever its session (the filter forgotten)
last_log_any(D, sid) == Len(D.history)

\* db.query(GameHistoryLog).filter(session_id == sid).order_by(id.desc()).first()
last_log_of(D, sid) == LastIndexWith(D.history, "session_id", sid)

\* db.query(UserGamification).filter(user_id == u).first()
gam_first(D, user_id) ==
    LET hits == {i \in DOMAIN D.gamification : D.gamification[i].user_id = user_id}
    IN IF hits = {} THEN 0 ELSE CHOOSE i \in hits : \A j \in hits : i <= j

\* a restart that empties the History table (the filter left out)
delete_all_logs(hist, sid) == <<>>

\* a restart that leaves the History rows in place
keep_logs(hist, sid) == hist

\* db.query(GameHistoryLog).filter(session_id == sid).delete()
delete_logs_of(hist, sid) ==
    SelectSeq(hist, LAMBDA row : row.session_id # sid)

\* a rollback that leaves its History row in the table
delete_log_skipped(hist, idx) == hist

\* db.delete(last_log)
delete_log(hist, idx) ==
    SubSeq(hist, 1, idx - 1) \o SubSeq(hist, idx + 1, Len(hist))

\* json.dumps of a dict: its items in insertion order
json_dumps(items) == items

\* a parse that keeps the three resources only
json_loads_resources(text) ==
    [k \in {text[i][1] : i \in DOMAIN text} \ {"current_node_id"} |->
        text[CHOOSE i \in DOMAIN text : text[i][1] = k][2]]

\* json.loads: the dict of the serialised items
json_loads(text) ==
    [k \in {text[i][1] : i \in DOMAIN text} |->
        text[CHOOSE i \in DOMAIN text : text[i][1] = k][2]]

----------------------------------------------------------------------------
(* GameService *)

\* str.replace of the three placeholders by the session's values
Substitute(tokens, session) ==
    [i \in DOMAIN tokens |->
        IF tokens[i] = "{savings}" THEN ToString(session.savings)
        ELSE IF tokens[i] = "{debt}" THEN ToString(session.debt)
        ELSE IF tokens[i] = "{confidence}" THEN ToString(session.confidence)
        ELSE tokens[i]]

\* a state shown without negative amounts
GameState_floored(session) ==
    [savings |-> IF session.savings < 0 THEN 0 ELSE session.savings,
     debt |-> IF session.debt < 0 THEN 0 ELSE session.debt,
     confidence |-> session.confidence]

GameState(session) ==
    [savings |-> session.savings, debt |-> session.debt,
     confidence |-> session.confidence]

\* StoryResponse restricted to node id, text, choices (id, text) and state
build_response(node, session, language) ==
    LET cs == Get(node, "choices", <<>>)
        choices_list == [i \in DOMAIN cs |->
                            [id |-> cs[i].id, text |-> resolve_text(cs[i].text, language)]]
        resolved == resolve_text(Get(node, "narrative", Str(<<>>)), language)
        narrative == IF resolved # <<>> THEN Substitute(resolved, session) ELSE resolved
    IN [node |-> [id |-> node.node_id,
                  text |-> IF narrative # <<>> THEN Some(narrative) ELSE None,
                  choices |-> choices_list],
        state |-> GameState(session)]

\* a terminal view that echoes the stored position
end_response_at(session) ==
    [node |-> [id |-> session.current_node_id, text |-> Some(<<"Story Completed!">>),
               choices |-> <<>>],
     state |-> GameState(session)]

\* the terminal synthetic node
end_response(session) ==
    [node |-> [id |-> "end", text |-> Some(<<"Story Completed!">>), choices |-> <<>>],
     state |-> GameState(session)]

\* sample resources for a path the catalog does not have
initial_stats_or_sample(path_data) ==
    IF path_data # None THEN Get(path_data[1], "initial_state", EmptyDict)
    ELSE [savings |-> 100]

\* path_data.get("initial_state", {}) if path_data else {}
initial_stats_of(path_data) ==
    IF path_data # None THEN Get(path_data[1], "initial_state", EmptyDict) ELSE EmptyDict

\* a new row that ignores the path's initial_state
new_session_blank(D, user_id, path_id, initial_stats) ==
    [id |-> Len(D.sessions) + 1,
     user_id |-> user_id,
     current_path |-> path_id,
     current_node_id |-> "start",
     savings |-> 0,
     debt |-> 0,
     confidence |-> 50]

\* GameSession(user_id, current_path, current_node_id="start", savings, debt, confidence)
new_session(D, user_id, path_id, initial_stats) ==
    [id |-> Len(D.sessions) + 1,
     user_id |-> user_id,
     current_path |-> path_id,
     current_node_id |-> "start",
     savings |-> Get(initial_stats, "savings", 0),
     debt |-> Get(initial_stats, "debt", 0),
     confidence |-> Get(initial_stats, "confidence", 50)]

\* a read that awards the completion XP when it finds the story ended
get_current_state_awarding(eng, D, user_id, language) ==
    LET found == session_first(D, user_id)
        D1 == IF found = 0
              THEN [D EXCEPT !.sessions =
                        Append(@, new_session(D, user_id, "farming",
                                             initial_stats_of(paths_get(eng, "farming"))))]
              ELSE D
        sid == IF found = 0 THEN Len(D1.sessions) ELSE found
        s1 == D1.sessions[sid]
        current_node == IF s1.current_node_id = "start"
                        THEN get_start_node(eng, s1.current_path)
                        ELSE get_node(eng, s1.current_path, s1.current_node_id)
        D2 == IF s1.current_node_id = "start" /\ current_node # None
              THEN [D1 EXCEPT !.sessions[sid].current_node_id = current_node[1].node_id]
              ELSE D1
        g == gam_first(D2, user_id)
        D3 == IF current_node # None \/ s1.current_node_id = "start" THEN D2
              ELSE IF g # 0
                   THEN [D2 EXCEPT !.gamification[g].total_xp = @ + 50]
                   ELSE [D2 EXCEPT !.gamification =
                            Append(@, [user_id |-> user_id, total_xp |-> 50,
                                       current_level |-> 1])]
        session == D3.sessions[sid]
    IN [db |-> D3,
        resp |-> IF current_node = None
                 THEN end_response(session)
                 ELSE build_response(current_node[1], session, language)]

get_current_state(eng, D, user_id, language) ==
    LET found == session_first(D, user_id)
        D1 == IF found = 0
              THEN [D EXCEPT !.sessions =
                        Append(@, new_session(D, user_id, "farming",
                                             initial_stats_of(paths_get(eng, "farming"))))]
              ELSE D
        sid == IF found = 0 THEN Len(D1.sessions) ELSE found
        s1 == D1.sessions[sid]
        current_node == IF s1.current_node_id = "start"
                        THEN get_start_node(eng, s1.current_path)
                        ELSE get_node(eng, s1.current_path, s1.current_node_id)
        D2 == IF s1.current_node_id = "start" /\ current_node # None
              THEN [D1 EXCEPT !.sessions[sid].current_node_id = current_node[1].node_id]
              ELSE D1
        session == D2.sessions[sid]
    IN [db |-> D2,
        resp |-> IF current_node = None
                 THEN end_response(session)
                 ELSE build_response(current_node[1], session, language)]

\* no substitution of an unknown path_id
no_fallback(eng, path_id) == path_id

\* the path set_path settles on: the fallback "farming" for an unknown path_id
fallback_path(eng, path_id) ==
    IF paths_get(eng, path_id) = None THEN "farming" ELSE path_id

\* a restart that leaves the position where it was
reset_session_keeps_node(session, path_id, initial_stats) ==
    [session EXCEPT
        !.current_path = path_id,
        !.savings = Get(initial_stats, "savings", 0),
        !.debt = Get(initial_stats, "debt", 0),
        !.confidence = Get(initial_stats, "confidence", 50)]

\* a restart that forgets to reset the debt
reset_session_keeps_debt(session, path_id, initial_stats) ==
    [session EXCEPT
        !.current_path = path_id,
        !.current_node_id = "start",
        !.savings = Get(initial_stats, "savings", 0),
        !.confidence = Get(initial_stats, "confidence", 50)]

\* the in-place restart of an existing session row
reset_session(session, path_id, initial_stats) ==
    [session EXCEPT
        !.current_path = path_id,
        !.current_node_id = "start",
        !.savings = Get(initial_stats, "savings", 0),
        !.debt = Get(initial_stats, "debt", 0),
        !.confidence = Get(initial_stats, "confidence", 50)]

set_path_commit(eng, D, user_id, requested) ==
    LET found == session_first(D, user_id)
        path_id == fallback_path(eng, requested)
        initial_stats == initial_stats_of(paths_get(eng, path_id))
    IN IF found # 0
       THEN [D EXCEPT
               !.sessions[found] = reset_session(@, path_id, initial_stats),
               !.history = delete_logs_of(@, found)]
       ELSE [D EXCEPT !.sessions =
                 Append(@, new_session(D, user_id, path_id, initial_stats))]

set_path(eng, D, user_id, requested, language) ==
    get_current_state(eng, set_path_commit(eng, D, user_id, requested),
                      user_id, language)

\* an award that is only given with the creation of the record
award_xp_once(D, user_id, xp) ==
    IF gam_first(D, user_id) # 0 THEN D
    ELSE [D EXCEPT !.gamification =
            Append(@, [user_id |-> user_id, total_xp |-> xp, current_level |-> 1])]

award_xp(D, user_id, xp) ==
    LET g == gam_first(D, user_id)
    IN IF g # 0
       THEN [D EXCEPT !.gamification[g].total_xp = @ + xp]
       ELSE [D EXCEPT !.gamification =
                Append(@, [user_id |-> user_id, total_xp |-> xp, current_level |-> 1])]

\* the experience points of a completed story
CompletionXp == 50

\* a snapshot that leaves the position out
prev_stats_without_node(session) ==
    json_dumps(<< <<"savings", session.savings>>,
                  <<"debt", session.debt>>,
                  <<"confidence", session.confidence>> >>)

\* the snapshot make_choice serialises into previous_stats
prev_stats_of(session) ==
    json_dumps(<< <<"savings", session.savings>>,
                  <<"debt", session.debt>>,
                  <<"confidence", session.confidence>>,
                  <<"current_node_id", session.current_node_id>> >>)

\* a row tagged with the path instead of the node
history_log_by_path(session, choice_id) ==
    [session_id |-> session.id,
     node_id |-> session.current_path,
     choice_id |-> choice_id,
     previous_stats |-> prev_stats_of(session)]

\* GameHistoryLog(session_id, node_id, choice_id, previous_stats) of the
\* session as it is before the impact is applied
history_log(session, choice_id) ==
    [session_id |-> session.id,
     node_id |-> session.current_node_id,
     choice_id |-> choice_id,
     previous_stats |-> prev_stats_of(session)]

\* impacts with confidence kept within 0..100
Clamp(x) == IF x < 0 THEN 0 ELSE IF x > 100 THEN 100 ELSE x

apply_impact_clamped(session, impact) ==
    [session EXCEPT
        !.savings = @ + Get(impact, "savings", 0),
        !.debt = @ + Get(impact, "debt", 0),
        !.confidence = Clamp(@ + Get(impact, "confidence", 0))]

\* session.<field> += impact.get(<field>, 0)
apply_impact(session, impact) ==
    [session EXCEPT
        !.savings = @ + Get(impact, "savings", 0),
        !.debt = @ + Get(impact, "debt", 0),
        !.confidence = @ + Get(impact, "confidence", 0)]

\* the node id make_choice advances to
advance(eng, session, current_node, selected) ==
    IF "next_node" \in DOMAIN selected /\ Truthy(selected.next_node) THEN
        LET next_node == get_node(eng, session.current_path, selected.next_node[1])
        IN IF next_node # None THEN next_node[1].node_id ELSE "end"
    ELSE IF "next_node" \in DOMAIN selected /\ selected.next_node = None THEN "end"
    ELSE
        LET next_node == get_next_node(eng, session.current_path,
                                       Get(current_node, "sequence", 0))
        IN IF next_node # None THEN next_node[1].node_id ELSE "end"

\* a lookup that falls back to the node's first choice
select_or_first(current_node, choice_id) ==
    LET cs == current_node.choices
        hits == {i \in DOMAIN cs : cs[i].id = choice_id}
    IN IF cs = <<>> THEN None
       ELSE IF hits = {} THEN Some(cs[1])
       ELSE Some(cs[CHOOSE i \in hits : \A j \in hits : i <= j])

\* next((c for c in choices if c["id"] == choice_id), None)
select_choice(current_node, choice_id) ==
    LET cs == current_node.choices
        hits == {i \in DOMAIN cs : cs[i].id = choice_id}
    IN IF hits = {} THEN None ELSE Some(cs[CHOOSE i \in hits : \A j \in hits : i <= j])

\* applied: the choice passed the three early returns
no_choice(eng, D, user_id, language) ==
    get_current_state(eng, D, user_id, language) @@ [applied |-> FALSE]

\* make_choice from line 164 on: found is the row of the caller's session
choose(eng, D, found, user_id, choice_id, language) ==
    LET session == D.sessions[found]
        current_node == get_node(eng, session.current_path, session.current_node_id)
    IN IF current_node = None THEN no_choice(eng, D, user_id, language)
       ELSE
        LET selected == select_choice(current_node[1], choice_id)
        IN IF selected = None THEN no_choice(eng, D, user_id, language)
           ELSE
            LET log == history_log(session, choice_id)
                moved == [apply_impact(session, Get(selected[1], "impact", EmptyDict))
                            EXCEPT !.current_node_id =
                                advance(eng, session, current_node[1], selected[1])]
                D1 == [D EXCEPT !.history = Append(@, log),
                                !.sessions[found] = moved]
                D2 == IF moved.current_node_id = "end"
                      THEN award_xp(D1, user_id, CompletionXp)
                      ELSE D1
            IN get_current_state(eng, D2, user_id, language)
               @@ [applied |-> TRUE]

\* variant: a missing session is provisioned and the choice then applied to it
make_choice_provisioning(eng, D, user_id, choice_id, language) ==
    LET D0 == get_current_state(eng, D, user_id, language).db
    IN choose(eng, D0, session_first(D0, user_id), user_id, choice_id, language)

make_choice(eng, D, user_id, choice_id, language) ==
    LET found == session_first(D, user_id)
    IN IF found = 0 THEN no_choice(eng, D, user_id, language)
       ELSE choose(eng, D, found, user_id, choice_id, language)

\* restored: a History entry was consumed
rollback(D, user_id) ==
    LET found == session_first(D, user_id)
    IN IF found = 0
       THEN [db |-> D, restored |-> FALSE,
             resp |-> [message |-> "No session found", restored_node |-> ""]]
       ELSE
        LET session == D.sessions[found]
            last_log == last_log_of(D, session.id)
        IN IF last_log = 0
           THEN [db |-> D, restored |-> FALSE,
                 resp |-> [message |-> "Cannot rollback further",
                           restored_node |-> session.current_node_id]]
           ELSE
            LET text == D.history[last_log].previous_stats
                prev == IF text # <<>> THEN json_loads(text) ELSE EmptyDict
                back == [session EXCEPT
                            !.savings = Get(prev, "savings", @),
                            !.debt = Get(prev, "debt", @),
                            !.confidence = Get(prev, "confidence", @),
                            !.current_node_id = Get(prev, "current_node_id", @)]
            IN [db |-> [D EXCEPT !.sessions[found] = back,
                                 !.history = delete_log(@, last_log)],
                restored |-> TRUE,
                resp |-> [message |-> "Rolled back successfully",
                          restored_node |-> back.current_node_id]]

\* the UPDATE that commits the increments of the loaded object instead of
\* its values
flush_increments(row, loaded, local) ==
    [row EXCEPT
        !.savings = @ + (local.savings - loaded.savings),
        !.debt = @ + (local.debt - loaded.debt),
        !.confidence = @ + (local.confidence - loaded.confidence),
        !.current_node_id = IF local.current_node_id # loaded.current_node_id
                            THEN local.current_node_id ELSE @]

\* db.commit() for a session object loaded as `loaded` and now holding
\* `local`: the UPDATE sets the columns whose value was changed and leaves
\* the others as the row has them
flush_session(row, loaded, local) ==
    [row EXCEPT
        !.savings = IF local.savings # loaded.savings THEN local.savings ELSE @,
        !.debt = IF local.debt # loaded.debt THEN local.debt ELSE @,
        !.confidence = IF local.confidence # loaded.confidence
                       THEN local.confidence ELSE @,
        !.current_node_id = IF local.current_node_id # loaded.current_node_id
                            THEN local.current_node_id ELSE @]

\* get_current_state at an early return of make_choice: the query returns
\* the object this db session already loaded
stale_state(eng, D, found, loaded, user_id, language) ==
    LET res == get_current_state(eng, [D EXCEPT !.sessions[found] = loaded],
                                 user_id, language)
    IN [db |-> [D EXCEPT !.sessions[found] =
                    flush_session(@, loaded, res.db.sessions[found])],
        resp |-> res.resp, applied |-> FALSE]

\* make_choice from line 164 on for a session object loaded earlier, on the
\* tables D as they are at the commit of line 202
commit_choice(eng, D, loaded, user_id, choice_id, language) ==
    LET found == session_first(D, user_id)
        current_node == get_node(eng, loaded.current_path, loaded.current_node_id)
    IN IF current_node = None
       THEN stale_state(eng, D, found, loaded, user_id, language)
       ELSE
        LET selected == select_choice(current_node[1], choice_id)
        IN IF selected = None
           THEN stale_state(eng, D, found, loaded, user_id, language)
           ELSE
            LET log == history_log(loaded, choice_id)
                moved == [apply_impact(loaded, Get(selected[1], "impact", EmptyDict))
                            EXCEPT !.current_node_id =
                                advance(eng, loaded, current_node[1], selected[1])]
                D1 == [D EXCEPT !.history = Append(@, log),
                                !.sessions[found] = flush_session(@, loaded, moved)]
                D2 == IF D1.sessions[found].current_node_id = "end"
                      THEN award_xp(D1, user_id, CompletionXp)
                      ELSE D1
            IN get_current_state(eng, D2, user_id, language)
               @@ [applied |-> TRUE]

\* rollback from line 224 on for a session object and a last_log loaded
\* earlier, on the tables D as they are at the commit of line 233
commit_rollback(D, loaded, last_log, user_id) ==
    LET found == session_first(D, user_id)
    IN IF last_log = 0
       THEN [db |-> D, restored |-> FALSE,
             resp |-> [message |-> "Cannot rollback further",
                       restored_node |-> loaded.current_node_id]]
       ELSE
        LET text == D.history[last_log].previous_stats
            prev == IF text # <<>> THEN json_loads(text) ELSE EmptyDict
            back == [loaded EXCEPT
                        !.savings = Get(prev, "savings", @),
                        !.debt = Get(prev, "debt", @),
                        !.confidence = Get(prev, "confidence", @),
                        !.current_node_id = Get(prev, "current_node_id", @)]
        IN [db |-> [D EXCEPT !.sessions[found] = flush_session(@, loaded, back),
                             !.history = delete_log(@, last_log)],
            restored |-> TRUE,
            resp |-> [message |-> "Rolled back successfully",
                      restored_node |-> back.current_node_id]]

----------------------------------------------------------------------------
(* The state machine: one request at a time *)

DB == [sessions |-> sessions, history |-> history, gamification |-> gamification]

\* the request slots: the handlers that can be in flight at the same time
\* (sync endpoints run in the server's thread pool, one db session each)
Requests == {1, 2}

\* a slot that serves no request
Idle == [pc |-> "idle", op |-> "", choice |-> "", session |-> None, last_log |-> 0]

\* the tables of a fresh database
EmptyDB == [sessions |-> <<>>, history |-> <<>>, gamification |-> <<>>]

\* savings, debt, confidence and position of a session row
Snap(session) ==
    [savings |-> session.savings, debt |-> session.debt,
     confidence |-> session.confidence, current_node_id |-> session.current_node_id]

\* the user's session row in D, None when there is none
SessionOf(D, u) ==
    IF session_first(D, u) = 0 THEN None ELSE Some(D.sessions[session_first(D, u)])

\* the History rows of the user's session in D, in id order
LogsOf(D, u) ==
    LET sid == session_first(D, u)
    IN SelectSeq(D.history, LAMBDA row : row.session_id = sid)

\* the user's total_xp in D, 0 without a gamification record
XpOf(D, u) ==
    IF gam_first(D, u) = 0 THEN 0 ELSE D.gamification[gam_first(D, u)].total_xp

\* the sum of total_xp over the first n gamification rows
RECURSIVE XpTotal(_, _)
XpTotal(D, n) == IF n = 0 THEN 0 ELSE D.gamification[n].total_xp + XpTotal(D, n - 1)

\* what make_choice started from: the session's snapshot and its History count
Before(u) == Some([state |-> Snap(SessionOf(DB, u)[1]), logs |-> Len(LogsOf(DB, u))])

Init ==
    /\ engine \in {load_stories(f) : f \in StoryFiles}
    /\ sessions = <<>>
    /\ history = <<>>
    /\ gamification = <<>>
    /\ last = [op |-> "init", user |-> 0, arg |-> "", ok |-> FALSE,
               created |-> FALSE, resp |-> None]
    /\ pre = None
    /\ made = [u \in Users |-> None]
    /\ visited = [u \in Users |-> <<>>]
    /\ ended = [u \in Users |-> 0]
    /\ solo = [u \in Users |-> EmptyDB]
    /\ inflight = [r \in Requests |-> Idle]
    /\ overlapped = FALSE
    /\ begun = 0

Commit(D) ==
    /\ sessions' = D.sessions
    /\ history' = D.history
    /\ gamification' = D.gamification

\* pre after set_path: how many History rows it erased
SetPath(u, p) ==
    \E r \in {set_path(engine, DB, u, p, LanguageOf[u])} :
    /\ Commit(r.db)
    /\ last' = [op |-> "set_path", user |-> u, arg |-> p, ok |-> TRUE,
                created |-> (SessionOf(DB, u) = None), resp |-> r.resp]
    /\ pre' = Some([erased |-> Len(LogsOf(DB, u))])
    /\ made' = [made EXCEPT ![u] = Some(<<>>)]
    /\ visited' = [visited EXCEPT ![u] = <<Snap(SessionOf(r.db, u)[1])>>]
    /\ solo' = [solo EXCEPT ![u] = set_path(engine, solo[u], u, p, LanguageOf[u]).db]
    /\ UNCHANGED <<engine, ended, inflight, overlapped, begun>>

GetCurrentState(u) ==
    \E r \in {get_current_state(engine, DB, u, LanguageOf[u])} :
    /\ Commit(r.db)
    /\ last' = [op |-> "get_current_state", user |-> u, arg |-> "", ok |-> TRUE,
                created |-> (SessionOf(DB, u) = None), resp |-> r.resp]
    /\ pre' = None
    /\ made' = IF SessionOf(DB, u) = None THEN [made EXCEPT ![u] = Some(<<>>)] ELSE made
    /\ visited' = IF SessionOf(DB, u) = None
                  THEN [visited EXCEPT ![u] = <<Snap(SessionOf(r.db, u)[1])>>]
                  ELSE visited
    /\ solo' = [solo EXCEPT ![u] = get_current_state(engine, solo[u], u, LanguageOf[u]).db]
    /\ UNCHANGED <<engine, ended, inflight, overlapped, begun>>

\* pre after an applied make_choice: the session state and History count it began with
MakeChoice(u, c) ==
    \E r \in {make_choice(engine, DB, u, c, LanguageOf[u])} :
    /\ Len(r.db.history) <= MaxHistory
    /\ XpTotal(r.db, Len(r.db.gamification)) <= MaxAwards * CompletionXp
    /\ Commit(r.db)
    /\ last' = [op |-> "make_choice", user |-> u, arg |-> IF r.applied THEN c ELSE "",
                ok |-> r.applied, created |-> (SessionOf(DB, u) = None), resp |-> r.resp]
    /\ pre' = IF r.applied /\ SessionOf(DB, u) # None THEN Before(u) ELSE None
    /\ made' = IF SessionOf(DB, u) = None THEN [made EXCEPT ![u] = Some(<<>>)]
               ELSE IF r.applied /\ made[u] # None
               THEN [made EXCEPT ![u] =
                        Some(Append(@[1], <<SessionOf(DB, u)[1].current_node_id, c>>))]
               ELSE made
    /\ visited' = IF r.applied \/ SessionOf(DB, u) = None
                  THEN [visited EXCEPT ![u] =
                            (IF r.applied THEN @ ELSE <<>>)
                                \o <<Snap(SessionOf(r.db, u)[1])>>]
                  ELSE visited
    /\ ended' = IF r.applied /\ SessionOf(r.db, u)[1].current_node_id = "end"
                THEN [ended EXCEPT ![u] = @ + 1]
                ELSE ended
    /\ solo' = [solo EXCEPT ![u] = make_choice(engine, solo[u], u, c, LanguageOf[u]).db]
    /\ UNCHANGED <<engine, inflight, overlapped, begun>>

\* pre is kept by a rollback served right after the same user's set_path or
\* applied make_choice
Rollback(u) ==
    \E r \in {rollback(DB, u)} :
    /\ Commit(r.db)
    /\ last' = [op |-> "rollback", user |-> u, arg |-> "", ok |-> r.restored,
                created |-> FALSE, resp |-> r.resp]
    /\ pre' = IF last.user = u /\ last.ok /\ last.op \in {"set_path", "make_choice"}
              THEN pre ELSE None
    /\ made' = IF r.restored THEN [made EXCEPT ![u] = None] ELSE made
    /\ visited' = IF r.restored /\ Len(visited[u]) > 1
                  THEN [visited EXCEPT ![u] = SubSeq(@, 1, Len(@) - 1)]
                  ELSE visited
    /\ solo' = [solo EXCEPT ![u] = rollback(solo[u], u).db]
    /\ UNCHANGED <<engine, ended, inflight, overlapped, begun>>

Next ==
    \/ \E u \in Users, p \in PathIds : p \in PathIdsOf[u] /\ SetPath(u, p)
    \/ \E u \in Users : GetCurrentState(u)
    \/ \E u \in Users, c \in ChoiceIds : c \in ChoiceIdsOf[u] /\ MakeChoice(u, c)
    \/ \E u \in Users : Rollback(u)

Spec == Init /\ [][Next]_vars

----------------------------------------------------------------------------
(* The catalog alone: story files of every shape up to a size, and the     *)
(* lookups of StoryEngine applied to what load_stories built from them     *)

\* the longest node list of a generated path
MaxNodes == 2

CatalogNodeIds == {"a", "b", "start"}

\* the sequence numbers a generated node may carry; a node may also carry none
CatalogSequences == {-1, 0, 1}

CatalogNodes ==
    {[node_id |-> n, choices |-> <<>>] : n \in CatalogNodeIds}
    \cup {[node_id |-> n, sequence |-> q, choices |-> <<>>] :
            n \in CatalogNodeIds, q \in CatalogSequences}

\* the node lists of at most MaxNodes nodes, node ids unique within the list
NodeLists ==
    UNION {{ns \in [1..n -> CatalogNodes] :
                \A i, j \in 1..n : ns[i].node_id = ns[j].node_id => i = j} :
           n \in 0..MaxNodes}

\* a file of the "paths" form with one path, and one of the old single-story form
CatalogFiles ==
    {[paths |-> <<[path_id |-> "farming", nodes |-> ns]>>] : ns \in NodeLists}
    \cup {[nodes |-> ns] : ns \in NodeLists}

\* the path ids looked up: the two a generated file can define and an unknown one
CatalogPathIds == {"farming", "default", "nonexistent"}

InitCatalog ==
    /\ engine \in {load_stories(Some(f)) : f \in CatalogFiles}
    /\ sessions = <<>>
    /\ history = <<>>
    /\ gamification = <<>>
    /\ last = [op |-> "init", user |-> 0, arg |-> "", ok |-> FALSE,
               created |-> FALSE, resp |-> None]
    /\ pre = None
    /\ made = [u \in Users |-> None]
    /\ visited = [u \in Users |-> <<>>]
    /\ ended = [u \in Users |-> 0]
    /\ solo = [u \in Users |-> EmptyDB]
    /\ inflight = [r \in Requests |-> Idle]
    /\ overlapped = FALSE
    /\ begun = 0

\* last.arg: the path id; last.resp: the node returned
GetStartNode(p) ==
    /\ last' = [op |-> "get_start_node", user |-> 0, arg |-> p,
                ok |-> (get_start_node(engine, p) # None), created |-> FALSE,
                resp |-> get_start_node(engine, p)]
    /\ UNCHANGED <<engine, sessions, history, gamification, pre, made, visited,
                   ended, solo, inflight, overlapped, begun>>

\* get_node for the node that the lookup before returned
GetNode(p) ==
    /\ last.op = "get_start_node" /\ last.arg = p /\ last.ok
    /\ last' = [op |-> "get_node", user |-> 0, arg |-> p,
                ok |-> (get_node(engine, p, last.resp[1].node_id) # None),
                created |-> FALSE,
                resp |-> get_node(engine, p, last.resp[1].node_id)]
    /\ UNCHANGED <<engine, sessions, history, gamification, pre, made, visited,
                   ended, solo, inflight, overlapped, begun>>

NextCatalog ==
    \/ \E p \in CatalogPathIds : GetStartNode(p)
    \/ \E p \in CatalogPathIds : GetNode(p)

SpecCatalog == InitCatalog /\ [][NextCatalog]_vars

----------------------------------------------------------------------------
(* resolve_text alone: applied to every text value of a small universe     *)

\* the languages asked for; the catalog's mappings know the first two
Languages == {"english", "hindi", "tamil"}

\* the strings a mapping may hold: "" and one text
TextStrings == {<<>>, <<"X">>, <<"Y ", "{debt}">>}

\* the mappings with any set of language keys
TextDicts == UNION {[K -> TextStrings] : K \in SUBSET Languages}

\* a mapping, a plain string ("" included) or None
TextValues ==
    {Dict(d) : d \in TextDicts}
    \cup {Str(t) : t \in TextStrings}
    \cup {PyNone}

\* last holds the arguments of the call to come: language in arg, value in resp
InitText ==
    /\ engine = EmptyEngine
    /\ sessions = <<>>
    /\ history = <<>>
    /\ gamification = <<>>
    /\ \E v \in TextValues, l \in Languages :
        last = [op |-> "arguments", user |-> 0, arg |-> l, ok |-> FALSE,
                created |-> FALSE, resp |-> v]
    /\ pre = None
    /\ made = [u \in Users |-> None]
    /\ visited = [u \in Users |-> <<>>]
    /\ ended = [u \in Users |-> 0]
    /\ solo = [u \in Users |-> EmptyDB]
    /\ inflight = [r \in Requests |-> Idle]
    /\ overlapped = FALSE
    /\ begun = 0

\* last.resp: the value passed and the text returned
ResolveText ==
    /\ last.op = "arguments"
    /\ last' = [op |-> "resolve_text", user |-> 0, arg |-> last.arg, ok |-> TRUE,
                created |-> FALSE,
                resp |-> [value |-> last.resp,
                          text |-> resolve_text(last.resp, last.arg)]]
    /\ UNCHANGED <<engine, sessions, history, gamification, pre, made, visited,
                   ended, solo, inflight, overlapped, begun>>

NextText == ResolveText

SpecText == InitText /\ [][NextText]_vars

----------------------------------------------------------------------------
(* Requests whose db.commit() raises: the exception leaves the handler, and *)
(* the tables are what the database kept of the transaction                 *)

\* a commit that keeps the History rows of the failed transaction
failed_commit_keeps_rows(D, written) == [D EXCEPT !.history = written.history]

\* db.commit() raising on the tables D, `written` being what the handler
\* was about to store: the INSERT, UPDATE and DELETE statements of the one
\* transaction are discarded together
failed_commit(D, written) == D

\* what the caller gets instead of a response
CommitError == [error |-> "commit failed"]

\* make_choice whose commit of line 202 raises
MakeChoiceFails(u, c) ==
    \E r \in {make_choice(engine, DB, u, c, LanguageOf[u])} :
    /\ r.applied
    /\ Commit(failed_commit(DB, r.db))
    /\ last' = [op |-> "make_choice", user |-> u, arg |-> "", ok |-> FALSE,
                created |-> FALSE, resp |-> CommitError]
    /\ pre' = None
    /\ UNCHANGED <<engine, made, visited, ended, solo, inflight, overlapped, begun>>

\* rollback whose commit of line 233 raises
RollbackFails(u) ==
    \E r \in {rollback(DB, u)} :
    /\ r.restored
    /\ Commit(failed_commit(DB, r.db))
    /\ last' = [op |-> "rollback", user |-> u, arg |-> "", ok |-> FALSE,
                created |-> FALSE, resp |-> CommitError]
    /\ pre' = None
    /\ UNCHANGED <<engine, made, visited, ended, solo, inflight, overlapped, begun>>

NextFail ==
    \/ Next
    \/ \E u \in Users, c \in ChoiceIds : c \in ChoiceIdsOf[u] /\ MakeChoiceFails(u, c)
    \/ \E u \in Users : RollbackFails(u)

SpecFail == Init /\ [][NextFail]_vars

----------------------------------------------------------------------------
(* Stories told in sequence order only: no choice names its next node *)

DairyPath ==
    [path_id |-> "dairy",
     initial_state |-> [savings |-> 5],
     nodes |-> <<
        [node_id |-> "d2", sequence |-> 2,
         choices |-> <<
            [id |-> "c1", text |-> Str(<<"Sell milk">>),
             impact |-> [savings |-> 2]] >>],
        [node_id |-> "d1", sequence |-> 1,
         narrative |-> Str(<<"A cow costs ", "{savings}">>),
         choices |-> <<
            [id |-> "c1", text |-> Str(<<"Buy">>),
             impact |-> [debt |-> 1]],
            [id |-> "c2", text |-> Str(<<"Rent">>),
             impact |-> [confidence |-> -5]] >>] >>]

PoultryPath ==
    [path_id |-> "poultry",
     nodes |-> <<
        [node_id |-> "p1", sequence |-> 1,
         choices |-> <<
            [id |-> "c1", text |-> Str(<<"Hatch">>),
             impact |-> [savings |-> 1]] >>],
        [node_id |-> "start", sequence |-> 2,
         choices |-> <<
            [id |-> "c1", text |-> Str(<<"Sell eggs">>)] >>] >>]

SequenceFile == [paths |-> <<DairyPath, PoultryPath>>]

SequencePathIds == {"dairy", "poultry"}

InitSequence ==
    /\ engine = load_stories(Some(SequenceFile))
    /\ sessions = <<>>
    /\ history = <<>>
    /\ gamification = <<>>
    /\ last = [op |-> "init", user |-> 0, arg |-> "", ok |-> FALSE,
               created |-> FALSE, resp |-> None]
    /\ pre = None
    /\ made = [u \in Users |-> None]
    /\ visited = [u \in Users |-> <<>>]
    /\ ended = [u \in Users |-> 0]
    /\ solo = [u \in Users |-> EmptyDB]
    /\ inflight = [r \in Requests |-> Idle]
    /\ overlapped = FALSE
    /\ begun = 0

NextSequence ==
    \/ \E u \in Users, p \in SequencePathIds : SetPath(u, p)
    \/ \E u \in Users : GetCurrentState(u)
    \/ \E u \in Users, c \in ChoiceIds : c \in ChoiceIdsOf[u] /\ MakeChoice(u, c)
    \/ \E u \in Users : Rollback(u)

SpecSequence == InitSequence /\ [][NextSequence]_vars

-----------------------------------------------------------------------------
(* Requests of one user in flight together: make_choice and rollback split *)
(* at the point where the handler has read its rows and not yet committed  *)

\* the number of requests served in one run
MaxRequests == 4

\* the user whose requests race
RaceUser == 1

\* the slots that may serve a rollback (one: two rollbacks never race here)
RollbackRequests == {2}

\* the paths the racing user's session may be on
RacePaths == {"farming", "business"}

\* the session exists: set_path was served before the requests arrive
InitRace ==
    /\ engine = load_stories(Some(MultiPathFile))
    /\ \E p \in RacePaths :
        \E r \in {set_path(engine, EmptyDB, RaceUser, p, LanguageOf[RaceUser])} :
            /\ sessions = r.db.sessions
            /\ history = r.db.history
            /\ gamification = r.db.gamification
            /\ last = [op |-> "set_path", user |-> RaceUser, arg |-> p, ok |-> TRUE,
                       created |-> TRUE, resp |-> r.resp]
            /\ visited = [u \in Users |->
                            IF u = RaceUser
                            THEN <<Snap(SessionOf(r.db, RaceUser)[1])>> ELSE <<>>]
    /\ pre = None
    /\ made = [u \in Users |-> None]
    /\ ended = [u \in Users |-> 0]
    /\ solo = [u \in Users |-> EmptyDB]
    /\ inflight = [r \in Requests |-> Idle]
    /\ overlapped = FALSE
    /\ begun = 0

\* a request of another slot is between its read and its commit
OthersInFlight(r) == \E q \in Requests \ {r} : inflight[q].pc # "idle"

\* make_choice, line 160: the session row is loaded
BeginChoice(r, c) ==
    /\ inflight[r].pc = "idle"
    /\ begun < MaxRequests
    /\ inflight' = [inflight EXCEPT ![r] =
                        [pc |-> "read", op |-> "make_choice", choice |-> c,
                         session |-> SessionOf(DB, RaceUser), last_log |-> 0]]
    /\ overlapped' = (overlapped \/ OthersInFlight(r))
    /\ begun' = begun + 1
    /\ UNCHANGED <<engine, sessions, history, gamification, last, pre, made,
                   visited, ended, solo>>

\* rollback, lines 213 to 222: the session row and its newest History row are loaded
BeginRollback(r) ==
    /\ inflight[r].pc = "idle"
    /\ begun < MaxRequests
    /\ inflight' = [inflight EXCEPT ![r] =
                        [pc |-> "read", op |-> "rollback", choice |-> "",
                         session |-> SessionOf(DB, RaceUser),
                         last_log |-> last_log_of(DB, SessionOf(DB, RaceUser)[1].id)]]
    /\ overlapped' = (overlapped \/ OthersInFlight(r))
    /\ begun' = begun + 1
    /\ UNCHANGED <<engine, sessions, history, gamification, last, pre, made,
                   visited, ended, solo>>

\* make_choice, lines 164 to 209: computed on the loaded object and committed
EndChoice(r) ==
    /\ inflight[r].pc = "read" /\ inflight[r].op = "make_choice"
    /\ \E res \in {commit_choice(engine, DB, inflight[r].session[1], RaceUser,
                                 inflight[r].choice, LanguageOf[RaceUser])} :
        /\ Len(res.db.history) <= MaxHistory
        /\ XpTotal(res.db, Len(res.db.gamification)) <= MaxAwards * CompletionXp
        /\ Commit(res.db)
        /\ last' = [op |-> "make_choice", user |-> RaceUser,
                    arg |-> IF res.applied THEN inflight[r].choice ELSE "",
                    ok |-> res.applied, created |-> FALSE, resp |-> res.resp]
        /\ pre' = IF res.applied
                  THEN Some([state |-> Snap(inflight[r].session[1]),
                             logs |-> Len(LogsOf(DB, RaceUser))])
                  ELSE None
        /\ visited' = IF res.applied
                      THEN [visited EXCEPT ![RaceUser] =
                                Append(@, Snap(SessionOf(res.db, RaceUser)[1]))]
                      ELSE visited
    /\ inflight' = [inflight EXCEPT ![r] = Idle]
    /\ UNCHANGED <<engine, made, ended, solo, overlapped, begun>>

\* rollback, lines 224 to 235: restored on the loaded object and committed
EndRollback(r) ==
    /\ inflight[r].pc = "read" /\ inflight[r].op = "rollback"
    /\ \E res \in {commit_rollback(DB, inflight[r].session[1], inflight[r].last_log,
                                   RaceUser)} :
        /\ Commit(res.db)
        /\ last' = [op |-> "rollback", user |-> RaceUser, arg |-> "",
                    ok |-> res.restored, created |-> FALSE, resp |-> res.resp]
        /\ visited' = IF res.restored /\ Len(visited[RaceUser]) > 1
                      THEN [visited EXCEPT ![RaceUser] = SubSeq(@, 1, Len(@) - 1)]
                      ELSE visited
    /\ pre' = None
    /\ inflight' = [inflight EXCEPT ![r] = Idle]
    /\ UNCHANGED <<engine, made, ended, solo, overlapped, begun>>

NextRace ==
    \/ \E r \in Requests, c \in ChoiceIds : BeginChoice(r, c)
    \/ \E r \in RollbackRequests : BeginRollback(r)
    \/ \E r \in Requests : EndChoice(r)
    \/ \E r \in RollbackRequests : EndRollback(r)

SpecRace == InitRace /\ [][NextRace]_vars

----------------------------------------------------------------------------
(* Properties *)

\* the session row of a user who has one
Session(u) == SessionOf(DB, u)[1]

\* the History rows of the user's session
Logs(u) == LogsOf(DB, u)

HasSession(u) == SessionOf(DB, u) # None

\* C1: a rollback served directly after the same user's applied make_choice
\* succeeds and restores savings, debt, confidence and current_node_id to the
\* values they had before that choice, and the session has as many History
\* entries as it had before the choice.
C1_RollbackInvertsChoice ==
    (last.op = "rollback" /\ pre # None /\ "state" \in DOMAIN pre[1]) =>
        /\ last.ok
        /\ Snap(Session(last.user)) = pre[1].state
        /\ Len(Logs(last.user)) = pre[1].logs

\* a second choice was undone: one History entry remains and the position moved back
C1_Witness ==
    /\ last.op = "rollback" /\ last.ok
    /\ pre # None /\ "state" \in DOMAIN pre[1]
    /\ pre[1].logs = 1
    /\ Len(Logs(last.user)) = 1
    /\ Session(last.user).current_node_id = "n2"

\* the impact of the choice choice_id of node node_id, {} when it has none
ImpactOf(path, node_id, choice_id) ==
    Get(select_choice(get_node(engine, path, node_id)[1], choice_id)[1],
        "impact", EmptyDict)

\* the sum of impact.field over a sequence of <<node_id, choice_id>>
RECURSIVE SumOf(_, _, _)
SumOf(path, choices, field) ==
    IF choices = <<>> THEN 0
    ELSE Get(ImpactOf(path, Head(choices)[1], Head(choices)[2]), field, 0)
            + SumOf(path, Tail(choices), field)

\* initial_state.field of the path in the catalog
InitialOf(path, field, default) ==
    IF path \in DOMAIN engine.paths /\ "initial_state" \in DOMAIN engine.paths[path]
    THEN Get(engine.paths[path].initial_state, field, default)
    ELSE default

\* C2: while no rollback has occurred since the session was initialised, its
\* savings, debt and confidence equal the path's initial values plus the sums
\* of the impacts of the choices applied, a missing impact field counting 0
\* and nothing being clamped.
C2_ImpactAccumulation ==
    \A u \in Users :
        (HasSession(u) /\ made[u] # None) =>
            LET s == Session(u)
                cs == made[u][1]
            IN /\ s.savings = InitialOf(s.current_path, "savings", 0)
                                + SumOf(s.current_path, cs, "savings")
               /\ s.debt = InitialOf(s.current_path, "debt", 0)
                                + SumOf(s.current_path, cs, "debt")
               /\ s.confidence = InitialOf(s.current_path, "confidence", 50)
                                + SumOf(s.current_path, cs, "confidence")

\* two choices from a fresh session drove savings and debt below 0 and
\* confidence above 100
C2_Witness ==
    /\ HasSession(1) /\ made[1] # None /\ Len(made[1][1]) = 2
    /\ last.op = "make_choice" /\ last.ok /\ last.user = 1
    /\ Session(1).savings < 0
    /\ Session(1).debt < 0
    /\ Session(1).confidence > 100

\* C3: a successful rollback leaves the session in the state on top of the
\* stack of states the user visited, once the state just left is popped, and
\* the History entries that remain are the snapshots of the older states in
\* the order they were visited: the entry consumed was the newest one.
C3_RollbackIsLIFO ==
    (last.op = "rollback" /\ last.ok) =>
        LET u == last.user
            logs == Logs(u)
        IN /\ Len(visited[u]) = Len(logs) + 1
           /\ Snap(Session(u)) = visited[u][Len(visited[u])]
           /\ \A i \in DOMAIN logs :
                json_loads(logs[i].previous_stats) = visited[u][i]

\* two choices, then one rollback: the state after the first choice is back
C3_Witness ==
    /\ last.op = "rollback" /\ last.ok
    /\ Len(visited[last.user]) = 2
    /\ Len(Logs(last.user)) = 1
    /\ Snap(Session(last.user)) # visited[last.user][1]

\* C4: a rollback for a session that has no History entries answers "Cannot
\* rollback further" with restored_node the session's current_node_id, and
\* changes no session row, no History row and no gamification row, every
\* time it is issued.
C4_RollbackExhausted ==
    [][(/\ last'.op = "rollback"
        /\ SessionOf(DB, last'.user) # None
        /\ LogsOf(DB, last'.user) = <<>>) =>
            /\ last'.resp = [message |-> "Cannot rollback further",
                             restored_node |-> Session(last'.user).current_node_id]
            /\ ~last'.ok
            /\ UNCHANGED <<sessions, history, gamification>>]_vars

\* the stack was emptied by rollbacks, and one more rollback was refused
C4_Witness ==
    /\ last.op = "rollback" /\ ~last.ok
    /\ HasSession(last.user)
    /\ made[last.user] = None
    /\ last.resp.message = "Cannot rollback further"
    /\ history # <<>>

\* C5: set_path leaves the session without History entries, and a rollback
\* served directly after the same user's set_path answers "Cannot rollback
\* further" and changes no row of the three tables.
C5_SetPathErasesHistory ==
    [][/\ (last'.op = "set_path" => LogsOf(DB', last'.user) = <<>>)
       /\ (/\ last.op = "set_path"
           /\ last'.op = "rollback"
           /\ last'.user = last.user) =>
                /\ last'.resp.message = "Cannot rollback further"
                /\ last'.resp.restored_node = Session(last.user).current_node_id
                /\ UNCHANGED <<sessions, history, gamification>>]_vars

\* set_path erased two History entries and the rollback after it was refused
C5_Witness ==
    /\ last.op = "rollback" /\ ~last.ok
    /\ pre # None /\ "erased" \in DOMAIN pre[1]
    /\ pre[1].erased = 2
    /\ Logs(last.user) = <<>>

\* the position of a session that has just been put on the path: the id of the
\* path's start node, the sentinel "start" for a path without nodes
StartIdOf(path) ==
    IF get_start_node(engine, path) = None THEN "start"
    ELSE get_start_node(engine, path)[1].node_id

\* C6: after set_path with a path of the catalog the session is on that path,
\* with the path's initial_state (0, 0 and 50 for missing fields) and at the
\* path's start node, whatever it held before.
C6_SetPathInitialises ==
    (last.op = "set_path" /\ last.arg \in DOMAIN engine.paths) =>
        LET s == Session(last.user)
        IN /\ s.current_path = last.arg
           /\ s.savings = InitialOf(last.arg, "savings", 0)
           /\ s.debt = InitialOf(last.arg, "debt", 0)
           /\ s.confidence = InitialOf(last.arg, "confidence", 50)
           /\ s.current_node_id = StartIdOf(last.arg)

\* a session with two choices behind it was restarted on "business", whose
\* initial_state names savings only
C6_Witness ==
    /\ last.op = "set_path" /\ last.arg = "business" /\ ~last.created
    /\ last.arg \in DOMAIN engine.paths
    /\ pre # None /\ pre[1].erased = 2
    /\ Snap(Session(last.user)) =
          [savings |-> 10, debt |-> 0, confidence |-> 50, current_node_id |-> "b1"]

\* C7: set_path with a path_id the catalog does not hold leaves the tables
\* and returns the response exactly as set_path with "farming" does from the
\* same state: the session is on "farming" with that path's initial_state.
C7_UnknownPathFallsBack ==
    [][(last'.op = "set_path" /\ last'.arg \notin DOMAIN engine.paths) =>
            LET u == last'.user
                r == set_path(engine, DB, u, "farming", LanguageOf[u])
            IN /\ sessions' = r.db.sessions
               /\ history' = r.db.history
               /\ gamification' = r.db.gamification
               /\ last'.resp = r.resp
               /\ SessionOf(DB', u)[1].current_path = "farming"
               /\ SessionOf(DB', u)[1].savings = InitialOf("farming", "savings", 0)
               /\ SessionOf(DB', u)[1].debt = InitialOf("farming", "debt", 0)
               /\ SessionOf(DB', u)[1].confidence = InitialOf("farming", "confidence", 50)]_vars

\* "nonexistent" was requested while "farming" is in the catalog
C7_Witness ==
    /\ last.op = "set_path" /\ last.arg = "nonexistent"
    /\ "farming" \in DOMAIN engine.paths
    /\ Session(last.user).current_path = "farming"
    /\ Session(last.user).savings = 100
    /\ last.resp.node.id = "start"

\* C8: get_current_state for a user without a session leaves exactly one
\* session row of that user, on "farming" with that path's initial_state, at
\* the path's start node and without History entries, and returns that start
\* node (a StoryResponse, never an error).
C8_AutoProvision ==
    (last.op = "get_current_state" /\ last.created) =>
        LET u == last.user
            s == Session(u)
        IN /\ Cardinality({i \in DOMAIN sessions : sessions[i].user_id = u}) = 1
           /\ s.current_path = "farming"
           /\ s.savings = InitialOf("farming", "savings", 0)
           /\ s.debt = InitialOf("farming", "debt", 0)
           /\ s.confidence = InitialOf("farming", "confidence", 50)
           /\ s.current_node_id = StartIdOf("farming")
           /\ Logs(u) = <<>>
           /\ last.resp.state = GameState(s)
           /\ get_start_node(engine, "farming") # None =>
                last.resp.node.id = get_start_node(engine, "farming")[1].node_id

\* user 2 was provisioned while user 1 already had a session with History
C8_Witness ==
    /\ last.op = "get_current_state" /\ last.created /\ last.user = 2
    /\ Len(sessions) = 2
    /\ history # <<>>
    /\ Session(2).savings = 100
    /\ last.resp.node.id = "start"

\* the stored position of the user's session names no node of its path
Unresolved(D, u) ==
    LET s == SessionOf(D, u)[1]
    IN /\ get_node(engine, s.current_path, s.current_node_id) = None
       /\ s.current_node_id = "start" => get_start_node(engine, s.current_path) = None

\* C9: get_current_state for a session whose position does not resolve
\* returns the node "end" with text "Story Completed!" and no choices
\* together with the session's savings, debt and confidence, and changes no
\* session row, no History row and no gamification row.
C9_TerminalView ==
    [][(/\ last'.op = "get_current_state"
        /\ SessionOf(DB, last'.user) # None
        /\ Unresolved(DB, last'.user)) =>
            /\ last'.resp =
                  [node |-> [id |-> "end", text |-> Some(<<"Story Completed!">>),
                             choices |-> <<>>],
                   state |-> GameState(Session(last'.user))]
            /\ UNCHANGED <<sessions, history, gamification>>]_vars

\* the state of a finished story was fetched
C9_Witness ==
    /\ last.op = "get_current_state" /\ ~last.created
    /\ Session(last.user).current_node_id = "end"
    /\ last.resp.node.id = "end"
    /\ Logs(last.user) # <<>>
    /\ XpOf(DB, last.user) = CompletionXp

\* the choice id is not one the user's current node offers, or that node does
\* not resolve
InvalidChoice(D, u, c) ==
    LET s == SessionOf(D, u)[1]
        nodes == Get(engine.nodes, s.current_path, EmptyDict)
    IN \/ s.current_node_id \notin DOMAIN nodes
       \/ \A i \in DOMAIN nodes[s.current_node_id].choices :
              nodes[s.current_node_id].choices[i].id # c

\* C10: make_choice on an existing session with a choice id the current node
\* does not offer, or while the current node does not resolve, changes no
\* session row, no History row and no gamification row, and returns what
\* get_current_state returns in that state.
C10_InvalidChoiceIsNoOp ==
    [][\A u \in Users, c \in ChoiceIds :
        (/\ last'.op = "make_choice" /\ last'.user = u
         /\ SessionOf(DB, u) # None
         /\ InvalidChoice(DB, u, c)
         /\ MakeChoice(u, c)) =>
            /\ UNCHANGED <<sessions, history, gamification>>
            /\ last'.resp = get_current_state(engine, DB, u, LanguageOf[u]).resp
            /\ ~last'.ok]_vars

\* a choice id unknown to a resolving node was submitted after a choice
C10_Witness ==
    /\ last.op = "make_choice" /\ ~last.ok /\ ~last.created
    /\ HasSession(last.user)
    /\ ~Unresolved(DB, last.user)
    /\ Logs(last.user) # <<>>
    /\ last.resp.node.id = Session(last.user).current_node_id

\* no row of the sessions table belongs to the user
NoSessionRow(u) == \A i \in DOMAIN sessions : sessions[i].user_id # u

\* C11: make_choice for a user without a session applies no impact, appends
\* no History row and awards no XP, whatever the choice id; it does what
\* get_current_state does: one session row is added for the user, on
\* "farming", at that path's start node, with that path's initial_state.
C11_ChoiceWithoutSessionProvisions ==
    [][\A u \in Users, c \in ChoiceIds :
        (/\ last'.op = "make_choice" /\ last'.user = u
         /\ NoSessionRow(u)
         /\ MakeChoice(u, c)) =>
            /\ UNCHANGED <<history, gamification>>
            /\ sessions' = get_current_state(engine, DB, u, LanguageOf[u]).db.sessions
            /\ last'.resp = get_current_state(engine, DB, u, LanguageOf[u]).resp
            /\ Len(sessions') = Len(sessions) + 1
            /\ SubSeq(sessions', 1, Len(sessions)) = sessions
            /\ LET s == sessions'[Len(sessions')]
               IN /\ s.user_id = u
                  /\ s.current_path = "farming"
                  /\ s.current_node_id = StartIdOf("farming")
                  /\ s.savings = InitialOf("farming", "savings", 0)
                  /\ s.debt = InitialOf("farming", "debt", 0)
                  /\ s.confidence = InitialOf("farming", "confidence", 50)
            /\ ~last'.ok]_vars

\* the second user's first request is a make_choice, after the first user played
C11_Witness ==
    /\ last.op = "make_choice" /\ last.created /\ ~last.ok
    /\ last.user = 2 /\ Logs(1) # <<>>
    /\ Session(2).current_path = "farming" /\ Session(2).savings = 100
    /\ Logs(2) = <<>> /\ XpOf(DB, 2) = 0

\* the catalog's record of the choice choice_id of the node node_id
ChoiceOf(path, node_id, choice_id) ==
    LET cs == engine.nodes[path][node_id].choices
    IN cs[CHOOSE i \in DOMAIN cs : cs[i].id = choice_id]

\* the node ids of the path in the catalog
NodeIdsOf(path) == DOMAIN Get(engine.nodes, path, EmptyDict)

\* C12: after an applied make_choice on a choice that carries the key
\* next_node the session is at "end" when the value is null, and otherwise
\* (the empty string included) at the node of that id when the current path
\* has it and at "end" when it has not.
C12_ExplicitNextNode ==
    \A u \in Users :
        (last.op = "make_choice" /\ last.ok /\ last.user = u) =>
            LET choice == ChoiceOf(Session(u).current_path,
                                   pre[1].state.current_node_id, last.arg)
            IN "next_node" \in DOMAIN choice =>
                Session(u).current_node_id =
                    IF choice.next_node = None THEN "end"
                    ELSE IF choice.next_node[1] \in NodeIdsOf(Session(u).current_path)
                         THEN choice.next_node[1]
                         ELSE "end"

\* the ids of the path's nodes that carry the sequence number seq
NodesAtSequence(path, seq) ==
    {n \in NodeIdsOf(path) :
        /\ "sequence" \in DOMAIN engine.nodes[path][n]
        /\ engine.nodes[path][n].sequence = seq}

\* C13: after an applied make_choice at node N on a choice without the key
\* next_node the session is at the node of the current path whose sequence
\* is N.sequence + 1 (0 + 1 when N has no sequence), and at "end" when the
\* path has no such node.
C13_SequenceSuccessor ==
    \A u \in Users :
        (last.op = "make_choice" /\ last.ok /\ last.user = u) =>
            LET path == Session(u).current_path
                N == engine.nodes[path][pre[1].state.current_node_id]
                choice == ChoiceOf(path, N.node_id, last.arg)
                successors == NodesAtSequence(path, Get(N, "sequence", 0) + 1)
            IN "next_node" \notin DOMAIN choice =>
                IF successors = {} THEN Session(u).current_node_id = "end"
                ELSE Session(u).current_node_id \in successors

\* the user owns a gamification record
HasXpRecord(u) == \E i \in DOMAIN gamification : gamification[i].user_id = u

\* C14: a user's total_xp is 50 times the number of that user's make_choice
\* calls that moved the session to "end", and the gamification record exists
\* once there was such a call: each of these calls adds exactly 50, and
\* set_path, get_current_state, rollback and make_choice calls that apply
\* nothing or end elsewhere add nothing.
C14_XpCountsCompletions ==
    \A u \in Users :
        /\ XpOf(DB, u) = 50 * ended[u]
        /\ HasXpRecord(u) <=> ended[u] > 0

\* the story was completed twice and the second completion rolled back
C14_Witness ==
    /\ ended[1] = 2 /\ XpOf(DB, 1) = 100
    /\ last.op = "rollback" /\ last.ok /\ last.user = 1
    /\ Session(1).current_node_id # "end"
    /\ visited[1] # <<>>

\* the view of a finished story for the session
CompletedView(session) ==
    [node |-> [id |-> "end", text |-> Some(<<"Story Completed!">>), choices |-> <<>>],
     state |-> [savings |-> session.savings, debt |-> session.debt,
                confidence |-> session.confidence]]

\* C15: while a session is at "end", a make_choice of its user with any
\* choice id changes no session row, no History row and no gamification row
\* and returns the "Story Completed!" view; a step after which the session
\* is no longer at "end" is a rollback or a set_path of that user.
C15_EndIsTerminal ==
    [][\A u \in Users :
        (HasSession(u) /\ Session(u).current_node_id = "end") =>
            /\ (last'.op = "make_choice" /\ last'.user = u) =>
                    /\ UNCHANGED <<sessions, history, gamification>>
                    /\ last'.resp = CompletedView(Session(u))
                    /\ ~last'.ok
            /\ SessionOf(DB', u)[1].current_node_id # "end" =>
                    /\ last'.user = u
                    /\ last'.op \in {"rollback", "set_path"}]_vars

\* a choice was submitted by a user whose story is completed
C15_Witness ==
    /\ last.op = "make_choice" /\ ~last.ok /\ ~last.created
    /\ HasSession(last.user)
    /\ Session(last.user).current_node_id = "end"
    /\ last.resp.node.id = "end"
    /\ ended[last.user] = 1 /\ XpOf(DB, last.user) = 50

\* C16: rollback for a user without a session returns the message
\* "No session found" with the restored node "" and changes no session row,
\* no History row and no gamification row: nothing is provisioned.
C16_RollbackWithoutSession ==
    [][\A u \in Users :
        (last'.op = "rollback" /\ last'.user = u /\ NoSessionRow(u)) =>
            /\ last'.resp = [message |-> "No session found", restored_node |-> ""]
            /\ UNCHANGED <<sessions, history, gamification>>
            /\ ~last'.ok]_vars

\* a user without a session asked for a rollback while another user's
\* session had History
C16_Witness ==
    /\ last.op = "rollback" /\ last.user = 2
    /\ NoSessionRow(2)
    /\ last.resp.message = "No session found"
    /\ sessions # <<>> /\ history # <<>>

\* the rows a user owns in the tables D: the session rows, the History rows
\* of these sessions, the gamification rows
OwnSessions(D, u) == SelectSeq(D.sessions, LAMBDA row : row.user_id = u)

OwnLogs(D, u) ==
    SelectSeq(D.history,
              LAMBDA row : \E i \in DOMAIN D.sessions :
                              /\ D.sessions[i].user_id = u
                              /\ D.sessions[i].id = row.session_id)

OwnXp(D, u) == SelectSeq(D.gamification, LAMBDA row : row.user_id = u)

\* the user's rows without the row ids, which depend on who came first
StateOf(D, u) ==
    [sessions |-> [i \in DOMAIN OwnSessions(D, u) |->
                        [OwnSessions(D, u)[i] EXCEPT !.id = 0]],
     logs |-> [i \in DOMAIN OwnLogs(D, u) |->
                        [OwnLogs(D, u)[i] EXCEPT !.session_id = 0]],
     xp |-> OwnXp(D, u)]

\* a request of one user leaves the rows of every other user as they were
OthersUntouched ==
    \A b \in Users :
        last'.user # b =>
            /\ OwnSessions(DB', b) = OwnSessions(DB, b)
            /\ OwnLogs(DB', b) = OwnLogs(DB, b)
            /\ OwnXp(DB', b) = OwnXp(DB, b)

\* C17: every request served for one user leaves the session, the History
\* rows and the gamification record of every other user unchanged, and in
\* every interleaving each user's session, History and total_xp are the ones
\* obtained by serving that user's requests alone in the same order.
C17_UsersAreIsolated ==
    /\ [][OthersUntouched]_vars
    /\ [](\A u \in Users : StateOf(DB, u) = StateOf(solo[u], u))

\* the second user's restart was served between the first user's choices
C17_Witness ==
    /\ last.op = "make_choice" /\ last.ok /\ last.user = 1
    /\ Len(OwnLogs(DB, 1)) = 2
    /\ OwnSessions(DB, 2) # <<>>
    /\ OwnSessions(DB, 2)[1].id < OwnSessions(DB, 1)[1].id
    /\ StateOf(solo[1], 1).logs # <<>>

\* the sequence of a node, 0 for a node that carries none
SequenceOf(node) == IF "sequence" \in DOMAIN node THEN node.sequence ELSE 0

\* C19: for every path of the loaded catalog with at least one node,
\* get_start_node returns a node of the path whose sequence is the least of
\* the path's nodes and get_node with that node's id returns the same node;
\* for a path id the catalog does not have, get_start_node returns None.
C19_StartNodeRoundTrip ==
    /\ \A p \in CatalogPathIds :
        IF p \in DOMAIN engine.paths
        THEN LET ns == engine.paths[p].nodes
                 start == get_start_node(engine, p)
             IN ns # <<>> =>
                    /\ start # None
                    /\ \E i \in DOMAIN ns : ns[i] = start[1]
                    /\ \A i \in DOMAIN ns : SequenceOf(start[1]) <= SequenceOf(ns[i])
                    /\ get_node(engine, p, start[1].node_id) = start
        ELSE get_start_node(engine, p) = None
    /\ last.op = "get_node" => last.resp = get_start_node(engine, last.arg)

\* the start node was looked up again by its id in a path whose first listed
\* node has sequence 1 and whose second has none
C19_Witness ==
    /\ last.op = "get_node" /\ last.ok
    /\ Len(engine.paths[last.arg].nodes) = 2
    /\ SequenceOf(engine.paths[last.arg].nodes[1]) = 1
    /\ "sequence" \notin DOMAIN engine.paths[last.arg].nodes[2]
    /\ last.resp = Some(engine.paths[last.arg].nodes[2])

\* C20: with the catalog left empty by an absent story file, every session
\* is on "farming" with savings 0, debt 0 and confidence 50 and stays at
\* "start", whatever path set_path was asked for; set_path, get_current_state
\* and make_choice return the "Story Completed!" view; no make_choice is
\* applied, so there is no History row, and there is no gamification row.
C20_EmptyCatalog ==
    engine = load_stories(None) =>
        /\ history = <<>> /\ gamification = <<>>
        /\ \A u \in Users :
            HasSession(u) =>
                /\ Session(u).current_path = "farming"
                /\ Session(u).current_node_id = "start"
                /\ Session(u).savings = 0
                /\ Session(u).debt = 0
                /\ Session(u).confidence = 50
        /\ last.op \in {"set_path", "get_current_state", "make_choice"} =>
                /\ HasSession(last.user)
                /\ last.resp = CompletedView(Session(last.user))
        /\ last.op = "make_choice" => ~last.ok
        /\ last.op = "rollback" =>
                last.resp.message \in {"No session found", "Cannot rollback further"}

\* with the empty catalog a choice was submitted on an existing session,
\* both users having one
C20_Witness ==
    /\ engine = load_stories(None)
    /\ engine.paths = EmptyDict
    /\ last.op = "make_choice" /\ ~last.created /\ last.user = 1
    /\ HasSession(1) /\ HasSession(2)
    /\ last.resp.node.id = "end"
    /\ Session(1).current_node_id = "start"

\* the sum of impact.field over the choices recorded in History rows
RECURSIVE SumLogs(_, _, _)
SumLogs(path, rows, field) ==
    IF rows = <<>> THEN 0
    ELSE Get(ImpactOf(path, Head(rows).node_id, Head(rows).choice_id), field, 0)
            + SumLogs(path, Tail(rows), field)

\* the user's resources are the path's initial values plus the impacts of
\* the choices the user's History rows record
Accounted(u) ==
    LET s == Session(u)
        rows == OwnLogs(DB, u)
    IN /\ s.savings = InitialOf(s.current_path, "savings", 0)
                        + SumLogs(s.current_path, rows, "savings")
       /\ s.debt = InitialOf(s.current_path, "debt", 0)
                        + SumLogs(s.current_path, rows, "debt")
       /\ s.confidence = InitialOf(s.current_path, "confidence", 50)
                        + SumLogs(s.current_path, rows, "confidence")

\* the session is in the state on top of the stack of states the user went
\* through, each applied choice pushing and each rollback popping one
OnVisitedPath(u) == Snap(Session(u)) = visited[u][Len(visited[u])]

\* the commit of an applied make_choice of slot r: a resource the choice
\* changes becomes the value the handler loaded plus the impact, whatever
\* the row holds by then; the others keep the row's value; the History row
\* added carries the loaded values
CommitOverwrites(r) ==
    LET loaded == inflight[r].session[1]
        impact == ImpactOf(loaded.current_path, loaded.current_node_id,
                           inflight[r].choice)
        row == Session(RaceUser)
        after == SessionOf(DB', RaceUser)[1]
    IN /\ after.savings = IF Get(impact, "savings", 0) # 0
                          THEN loaded.savings + impact.savings ELSE row.savings
       /\ after.debt = IF Get(impact, "debt", 0) # 0
                       THEN loaded.debt + impact.debt ELSE row.debt
       /\ after.confidence = IF Get(impact, "confidence", 0) # 0
                             THEN loaded.confidence + impact.confidence
                             ELSE row.confidence
       /\ Len(history') = Len(history) + 1
       /\ SubSeq(history', 1, Len(history)) = history
       /\ json_loads(history'[Len(history')].previous_stats) =
            [savings |-> loaded.savings, debt |-> loaded.debt,
             confidence |-> loaded.confidence,
             current_node_id |-> loaded.current_node_id]

WellFormedLog(path, row) ==
    LET snapshot == json_loads(row.previous_stats)
    IN /\ DOMAIN snapshot = {"savings", "debt", "confidence", "current_node_id"}
       /\ row.node_id = snapshot["current_node_id"]
       /\ row.node_id \in NodeIdsOf(path)
       /\ \E i \in DOMAIN engine.nodes[path][row.node_id].choices :
              engine.nodes[path][row.node_id].choices[i].id = row.choice_id

\* C22: every History row carries the four values of a snapshot, is tagged
\* with the snapshot's node and with a choice that node offers in the
\* catalog; the row added by an applied make_choice holds the savings, debt,
\* confidence and current_node_id the session had before the call; and the
\* History table grows only in an applied make_choice, by that one row.
C22_HistoryRecordsPriorState ==
    /\ [](\A u \in Users :
            /\ \A i \in DOMAIN OwnLogs(DB, u) :
                    WellFormedLog(OwnSessions(DB, u)[1].current_path, OwnLogs(DB, u)[i])
            /\ (last.op = "make_choice" /\ last.ok /\ last.user = u) =>
                    LET rows == OwnLogs(DB, u)
                        newest == rows[Len(rows)]
                        before == pre[1].state
                    IN /\ json_loads(newest.previous_stats) =
                            [savings |-> before.savings, debt |-> before.debt,
                             confidence |-> before.confidence,
                             current_node_id |-> before.current_node_id]
                       /\ newest.choice_id = last.arg)
    /\ [][Len(history') > Len(history) =>
            /\ last'.op = "make_choice" /\ last'.ok
            /\ Len(history') = Len(history) + 1
            /\ SubSeq(history', 1, Len(history)) = history]_vars

\* a second choice was applied, at a node other than the start node and with
\* resources other than the initial ones
C22_Witness ==
    /\ last.op = "make_choice" /\ last.ok /\ last.user = 1
    /\ Len(OwnLogs(DB, 1)) = 2
    /\ pre[1].state.current_node_id = "n2"
    /\ pre[1].state.savings = 80
    /\ OwnLogs(DB, 1)[2].node_id = "n2"

\* the step is a request that ended in a failed commit
CommitFailed == last'.resp = CommitError /\ last'.op \in {"make_choice", "rollback"}

\* C23: a make_choice or rollback whose commit fails stores nothing: the
\* sessions, History and gamification tables are as before; and in every
\* state, failed commits included, each session's resources are the initial
\* values plus the impacts of its History rows and its state is the one on
\* top of the states visited, so no delta is stored without its History row
\* and no History row without its delta.
C23_CommitIsAtomic ==
    /\ [][CommitFailed => UNCHANGED <<sessions, history, gamification>>]_vars
    /\ [](\A u \in Users : HasSession(u) => Accounted(u) /\ OnVisitedPath(u))

\* the commit of a rollback failed after two applied choices: both History
\* rows and the state the second choice led to are still stored
C23_Witness ==
    /\ last.op = "rollback" /\ last.resp = CommitError
    /\ Len(OwnLogs(DB, last.user)) = 2
    /\ Session(last.user).savings # InitialOf(Session(last.user).current_path, "savings", 0)
    /\ Accounted(last.user)

\* the ids of the choices the catalog lists for the node, in order
ChoiceIdsAt(path, node_id) ==
    [i \in DOMAIN engine.nodes[path][node_id].choices |->
        engine.nodes[path][node_id].choices[i].id]

\* C24: the response of set_path, get_current_state and make_choice shows
\* the session as stored after the call: state holds the stored savings,
\* debt and confidence; node.id is the stored current_node_id when the
\* path has a node of that id, with the ids of that node's choices in
\* catalog order, and "end" without choices otherwise.
C24_ResponseShowsStoredSession ==
    last.op \in {"set_path", "get_current_state", "make_choice"} =>
        LET stored == Session(last.user)
            node == last.resp.node
        IN /\ last.resp.state = [savings |-> stored.savings, debt |-> stored.debt,
                                 confidence |-> stored.confidence]
           /\ IF stored.current_node_id \in NodeIdsOf(stored.current_path)
              THEN /\ node.id = stored.current_node_id
                   /\ [i \in DOMAIN node.choices |-> node.choices[i].id] =
                        ChoiceIdsAt(stored.current_path, stored.current_node_id)
              ELSE /\ node.id = "end"
                   /\ node.choices = <<>>

\* a choice led to savings below zero at a node with two choices
C24_Witness ==
    /\ last.op = "make_choice" /\ last.ok
    /\ Session(last.user).savings < 0
    /\ last.resp.state.savings = Session(last.user).savings
    /\ last.resp.node.id = Session(last.user).current_node_id
    /\ Len(last.resp.node.choices) = 2

\* C25: with the requests of a user served one at a time, in every state the
\* session's savings, debt and confidence are the initial_state of its path
\* (0, 0 and 50 for missing fields) plus the impacts of the choices its
\* History rows record, and the number of these rows is the number of
\* applied choices less the number of rollbacks that restored, counted since
\* the set_path or the creation that initialised the session (the height of
\* the stack of visited states above its first entry).
C25_HistoryAccountsForResources ==
    \A u \in Users :
        HasSession(u) =>
            /\ Accounted(u)
            /\ Len(visited[u]) >= 1
            /\ Len(OwnLogs(DB, u)) = Len(visited[u]) - 1

\* two choices were applied and one rolled back
C25_Witness ==
    /\ last.op = "rollback" /\ last.ok
    /\ Len(OwnLogs(DB, last.user)) = 1
    /\ Len(visited[last.user]) = 2
    /\ Session(last.user).confidence # InitialOf(Session(last.user).current_path, "confidence", 50)
    /\ Accounted(last.user)

\* C26: a session's current_node_id is "start", "end" or the id of a node
\* of its current_path, and each of its History rows names a node of that
\* path, in its tag and in its snapshot, so that no rollback restores a
\* node id of a path the session was on before a set_path.
C26_PositionsBelongToPath ==
    \A u \in Users :
        HasSession(u) =>
            LET path == Session(u).current_path
            IN /\ Session(u).current_node_id \in {"start", "end"} \cup NodeIdsOf(path)
               /\ \A i \in DOMAIN OwnLogs(DB, u) :
                    /\ OwnLogs(DB, u)[i].node_id \in NodeIdsOf(path)
                    /\ Get(json_loads(OwnLogs(DB, u)[i].previous_stats),
                           "current_node_id", "") \in NodeIdsOf(path)

\* a rollback was refused right after a set_path to "business" that erased
\* History rows of another path
C26_Witness ==
    /\ last.op = "rollback" /\ ~last.ok
    /\ pre # None /\ "erased" \in DOMAIN pre[1] /\ pre[1].erased > 0
    /\ Session(last.user).current_path = "business"
    /\ Session(last.user).current_node_id = "b1"
    /\ OwnLogs(DB, last.user) = <<>>

\* rollback for the user on the tables D, repeated until it restores nothing:
\* the tables and the response of the last call
RECURSIVE RollbackUntilRefused(_, _)
RollbackUntilRefused(D, u) ==
    IF rollback(D, u).restored
    THEN RollbackUntilRefused(rollback(D, u).db, u)
    ELSE [db |-> rollback(D, u).db, resp |-> rollback(D, u).resp]

\* C27: from every reachable state of a session, rollback repeated until it
\* answers "Cannot rollback further" leaves the session on its path at that
\* path's start node with the path's initial_state and without History
\* rows: the session set_path produces for that path.
C27_RollbackUnwindsToStart ==
    \A u \in Users :
        HasSession(u) =>
            LET final == RollbackUntilRefused(DB, u)
                session == SessionOf(final.db, u)[1]
                path == Session(u).current_path
                fresh == set_path(engine, DB, u, path, LanguageOf[u]).db
            IN /\ final.resp.message = "Cannot rollback further"
               /\ LogsOf(final.db, u) = <<>>
               /\ session.current_path = path
               /\ session.current_node_id = StartIdOf(path)
               /\ session.savings = InitialOf(path, "savings", 0)
               /\ session.debt = InitialOf(path, "debt", 0)
               /\ session.confidence = InitialOf(path, "confidence", 50)
               /\ session = SessionOf(fresh, u)[1]
               /\ LogsOf(fresh, u) = <<>>

\* on "business" the rollbacks after a completed story were repeated until
\* one was refused
C27_Witness ==
    /\ last.op = "rollback" /\ ~last.ok
    /\ last.resp.message = "Cannot rollback further"
    /\ made[last.user] = None
    /\ ended[last.user] >= 1
    /\ Session(last.user).current_path = "business"
    /\ Session(last.user).current_node_id = "b1"
    /\ Session(last.user).savings = 10

\* the tables a request may find: the tables at rest, and the tables set_path
\* has committed when it calls get_current_state
TablesRead(u) ==
    {DB} \cup {set_path_commit(engine, DB, u, p) : p \in PathIds}

\* get_current_state on the tables D, and once more on what it left
ReadTwice(D, u) ==
    LET first == get_current_state(engine, D, u, LanguageOf[u])
    IN [first |-> first,
        second |-> get_current_state(engine, first.db, u, LanguageOf[u])]

\* the first call wrote at most a new session row of the user or, in the
\* user's row, the start node's id over the sentinel "start"
ReadWritesOnly(D, u) ==
    LET after == ReadTwice(D, u).first.db
        found == session_first(D, u)
    IN /\ after.history = D.history
       /\ after.gamification = D.gamification
       /\ IF found = 0
          THEN /\ Len(after.sessions) = Len(D.sessions) + 1
               /\ SubSeq(after.sessions, 1, Len(D.sessions)) = D.sessions
               /\ after.sessions[Len(after.sessions)].user_id = u
          ELSE /\ [after.sessions EXCEPT ![found].current_node_id =
                        D.sessions[found].current_node_id] = D.sessions
               /\ after.sessions[found].current_node_id
                        # D.sessions[found].current_node_id
                    => /\ D.sessions[found].current_node_id = "start"
                       /\ after.sessions[found].current_node_id
                            = StartIdOf(D.sessions[found].current_path)

\* C28: get_current_state leaves savings, debt, confidence, current_path,
\* the History rows and the XP as they are, writes nothing but a missing
\* session row or the start node's id over the sentinel "start", and a
\* second call directly after the first gives the same response and leaves
\* the tables as the first call left them.
C28_ReadIsIdempotent ==
    \A u \in Users : \A D \in TablesRead(u) :
        /\ ReadWritesOnly(D, u)
        /\ ReadTwice(D, u).second.resp = ReadTwice(D, u).first.resp
        /\ ReadTwice(D, u).second.db = ReadTwice(D, u).first.db

\* get_current_state has answered for a session with a History row and XP,
\* and asked again it answers the same; set_path to "business" would leave
\* the sentinel for it to replace by "b1"
C28_Witness ==
    /\ last.op = "get_current_state" /\ ~last.created
    /\ Len(Logs(last.user)) >= 1
    /\ XpOf(DB, last.user) > 0
    /\ last.resp = ReadTwice(DB, last.user).second.resp
    /\ LET D == set_path_commit(engine, DB, last.user, "business")
       IN /\ SessionOf(D, last.user)[1].current_node_id = "start"
          /\ SessionOf(ReadTwice(D, last.user).first.db, last.user)[1].current_node_id = "b1"

\* the node id the applied make_choice of the last call committed before it
\* read the session back
CommittedNodeId(u) ==
    LET path == Session(u).current_path
        at == pre[1].state.current_node_id
    IN advance(engine, Session(u), engine.nodes[path][at], ChoiceOf(path, at, last.arg))

\* get_current_state shows the node the session is stored at, and leaves the
\* session there
ReadKeepsNode(D, u) ==
    LET session == SessionOf(D, u)[1]
        read == get_current_state(engine, D, u, LanguageOf[u])
    IN session.current_node_id \in NodeIdsOf(session.current_path) =>
        /\ read.resp.node.id = session.current_node_id
        /\ SessionOf(read.db, u)[1].current_node_id = session.current_node_id

\* C29: for a session stored at a node of its current path get_current_state
\* returns that node and leaves current_node_id as it is, whatever the
\* node's id: read from the tables at rest, and read by make_choice after it
\* has committed the node it advanced to.
C29_ReadKeepsCurrentNode ==
    \A u \in Users :
        /\ HasSession(u) => ReadKeepsNode(DB, u)
        /\ (last.op = "make_choice" /\ last.ok /\ last.user = u
                /\ CommittedNodeId(u) \in NodeIdsOf(Session(u).current_path))
            => /\ last.resp.node.id = CommittedNodeId(u)
               /\ Session(u).current_node_id = CommittedNodeId(u)

\* the same for every node whose id is not the word "start", or that is its
\* path's start node
C29_ReadKeepsOtherNodes ==
    \A u \in Users :
        /\ HasSession(u) => ReadKeepsNode(DB, u)
        /\ (last.op = "make_choice" /\ last.ok /\ last.user = u
                /\ CommittedNodeId(u) \in NodeIdsOf(Session(u).current_path)
                /\ (CommittedNodeId(u) = "start"
                        => StartIdOf(Session(u).current_path) = "start"))
            => /\ last.resp.node.id = CommittedNodeId(u)
               /\ Session(u).current_node_id = CommittedNodeId(u)

\* no choice of the path carries the key next_node
NoNextNodeKeys(path) ==
    \A n \in NodeIdsOf(path) :
        \A i \in DOMAIN engine.nodes[path][n].choices :
            "next_node" \notin DOMAIN engine.nodes[path][n].choices[i]

\* the user's session is on a path of the catalog that has nodes and tells
\* its story by sequence numbers only
OnSequencePath(u) ==
    /\ HasSession(u)
    /\ Session(u).current_path \in DOMAIN engine.paths
    /\ NodeIdsOf(Session(u).current_path) # {}
    /\ NoNextNodeKeys(Session(u).current_path)

\* the last call was an applied make_choice of u, and it moved the session
\* to "end" or to a node of a greater sequence than the node it was at
MovedForward(u) ==
    LET path == Session(u).current_path
        to == Session(u).current_node_id
    IN (last.op = "make_choice" /\ last.ok /\ last.user = u) =>
        \/ to = "end"
        \/ /\ to \in NodeIdsOf(path)
           /\ SequenceOf(engine.nodes[path][to])
                > SequenceOf(engine.nodes[path][pre[1].state.current_node_id])

\* the positions the user went through since set_path, those taken back by
\* rollback left out, are pairwise different
NoNodeTwice(u) ==
    \A i, j \in DOMAIN visited[u] :
        i # j => visited[u][i].current_node_id # visited[u][j].current_node_id

\* after as many choices as the path has nodes the session is at "end"
EndsWithinNodeCount(u) ==
    Len(visited[u]) - 1 >= Cardinality(NodeIdsOf(Session(u).current_path))
        => Session(u).current_node_id = "end"

\* C30: on a path none of whose choices carries next_node every applied
\* make_choice moves the session to a node of strictly greater sequence or
\* to "end", no node is visited twice between set_path and the rollbacks,
\* and the session is at "end" after at most as many choices as the path
\* has nodes.
C30_SequenceAdvances ==
    \A u \in Users :
        OnSequencePath(u) =>
            /\ MovedForward(u)
            /\ NoNodeTwice(u)
            /\ EndsWithinNodeCount(u)

\* the same on the paths that have no node called "start" besides their
\* start node
C30_SequenceAdvancesElsewhere ==
    \A u \in Users :
        (/\ OnSequencePath(u)
         /\ "start" \in NodeIdsOf(Session(u).current_path)
                => StartIdOf(Session(u).current_path) = "start")
        => /\ MovedForward(u)
           /\ NoNodeTwice(u)
           /\ EndsWithinNodeCount(u)

\* on "dairy" two choices have led from d1 over d2 to "end"
C30_DairyEnds ==
    /\ last.op = "make_choice" /\ last.ok
    /\ Session(last.user).current_path = "dairy"
    /\ Session(last.user).current_node_id = "end"
    /\ Len(visited[last.user]) = 3

====
